---- MODULE Spec2Model ----
(***************************************************************************)
(* Flum IPTV playback core: PlayerManager (load/timeout race, stop,        *)
(* destroy), the HLS, DASH and native adapters, the video element they     *)
(* share, the URL classifier detectStreamType, the quality selector of     *)
(* the renderer and the stream recorder.                                   *)
(*                                                                         *)
(* Strings are sequences of one-character strings, so that toLowerCase    *)
(* and String.prototype.includes are computed character by character.     *)
(***************************************************************************)
EXTENDS Integers, Sequences, FiniteSets, TLC

VARIABLES
    url,          \* classifier: the locator handed to detectStreamType
    nParts,       \* classifier: number of fragments the locator was built from
    detected,     \* classifier: the value detectStreamType returned ("none" before the call)
    pm,           \* PlayerManager fields: currentAdapter, currentUrl, loadTimeoutId
    hls,          \* HlsAdapter: this.hls (0 = null), closure flag `resolved`, engine stage
    dash,         \* DashAdapter: this.player (0 = null), whether initialize() completed
    video,        \* the video element: src attribute, paused, registered once-listeners, volume, muted; the document's fullscreen state
    timers,       \* setTimeout timers created by load(), one per load() call
    loads,        \* one record per load() call: its promises, its result, what it reported
    nLoads,       \* number of load() calls made so far
    env,          \* the browser: HLS support mode, dash.js availability
    qs,           \* QualitySelector: levels, currentQuality, button and popup classes, popup options
    rec,          \* StreamRecorder fields: recording, mediaRecorder, stream, startTime, recordedChunks, currentPreset
    jobs,         \* the MediaRecorder objects created by start(), by number
    trace,        \* the last recorder operation or event with its result, and the onStop deliveries
    nJobs,        \* number of MediaRecorder objects created so far
    kbd,          \* KeyboardShortcuts.shortcuts: the key bound to each action ("" = none)
    settings,     \* SettingsCache.settings of the main process: shortcuts, history
    nReAdds       \* number of addToHistory calls made for a channel already in the history

vars == <<url, nParts, detected, pm, hls, dash, video, timers, loads, nLoads, env, qs,
          rec, jobs, trace, nJobs, kbd, settings, nReAdds>>
recorderVars == <<rec, jobs, trace, nJobs>>
classifierVars == <<url, nParts, detected>>
playerVars == <<pm, hls, dash, video, timers, loads, nLoads, env, qs>>
engineVars == <<hls, dash, loads, nLoads, env, qs>>
appVars == <<kbd, settings, nReAdds>>

----------------------------------------------------------------------------
(* Bounds of the model *)

MaxFragments == 2      \* a locator is built from at most this many fragments
MaxLoads == 2          \* load() calls per behaviour
MaxEngineErrors == 1   \* error events an engine emits per load() call
TickStep == 15         \* largest amount of time one Tick lets pass
MaxLevels == 3         \* levels of a stream handed to render()
MaxJobs == 2           \* MediaRecorder objects created per behaviour
MaxChunks == 2         \* timeslice data events per MediaRecorder
MaxChannels == 21      \* distinct channels handed to addToHistory
MaxReAdds == 1         \* addToHistory calls for a channel already in the history

(* Program constant: setTimeout(..., 30000), in units of 1000 ms *)
LoadTimeoutUnits == 30

(* Program constant: const maxHistory = 20 in SettingsCache.addToHistory *)
maxHistory == 20

----------------------------------------------------------------------------
(* Strings *)

UpperChars == <<"A","B","C","D","E","F","G","H","I","J","K","L","M",
                "N","O","P","Q","R","S","T","U","V","W","X","Y","Z">>
LowerChars == <<"a","b","c","d","e","f","g","h","i","j","k","l","m",
                "n","o","p","q","r","s","t","u","v","w","x","y","z">>

\* String.prototype.toLowerCase, one character
lowerChar(c) ==
    IF \E i \in 1..Len(UpperChars) : UpperChars[i] = c
    THEN LowerChars[CHOOSE i \in 1..Len(UpperChars) : UpperChars[i] = c]
    ELSE c

\* String.prototype.toLowerCase
toLowerCase(s) == [i \in 1..Len(s) |-> lowerChar(s[i])]

\* String.prototype.includes
includes(s, sub) ==
    \E i \in 0..(Len(s) - Len(sub)) :
        \A k \in 1..Len(sub) : s[i + k] = sub[k]

\* detectStreamType without the lower-casing step
detectStreamTypeCaseSensitive(u) ==
    LET lowerUrl == u IN
    IF \/ includes(lowerUrl, <<".", "m", "3", "u", "8">>)
       \/ includes(lowerUrl, <<"f", "o", "r", "m", "a", "t", "=", "m", "3", "u", "8">>)
       \/ includes(lowerUrl, <<"/", "h", "l", "s", "/">>)
       \/ includes(lowerUrl, <<"h", "l", "s", ".">>)
       \/ includes(lowerUrl, <<".", "m", "3", "u", "8", "?">>)
    THEN "hls"
    ELSE IF \/ includes(lowerUrl, <<".", "m", "p", "d">>)
            \/ includes(lowerUrl, <<"f", "o", "r", "m", "a", "t", "=", "m", "p", "d">>)
            \/ includes(lowerUrl, <<"/", "d", "a", "s", "h", "/">>)
    THEN "dash"
    ELSE IF \/ includes(lowerUrl, <<".", "m", "p", "4">>)
            \/ includes(lowerUrl, <<".", "w", "e", "b", "m">>)
            \/ includes(lowerUrl, <<".", "o", "g", "g">>)
            \/ includes(lowerUrl, <<".", "m", "o", "v">>)
    THEN "native"
    ELSE "hls"

\* detectStreamType with the container check placed before the manifest checks
detectStreamTypeContainerFirst(u) ==
    LET lowerUrl == toLowerCase(u) IN
    IF \/ includes(lowerUrl, <<".", "m", "p", "4">>)
       \/ includes(lowerUrl, <<".", "w", "e", "b", "m">>)
       \/ includes(lowerUrl, <<".", "o", "g", "g">>)
       \/ includes(lowerUrl, <<".", "m", "o", "v">>)
    THEN "native"
    ELSE IF \/ includes(lowerUrl, <<".", "m", "3", "u", "8">>)
            \/ includes(lowerUrl, <<"f", "o", "r", "m", "a", "t", "=", "m", "3", "u", "8">>)
            \/ includes(lowerUrl, <<"/", "h", "l", "s", "/">>)
            \/ includes(lowerUrl, <<"h", "l", "s", ".">>)
            \/ includes(lowerUrl, <<".", "m", "3", "u", "8", "?">>)
    THEN "hls"
    ELSE IF \/ includes(lowerUrl, <<".", "m", "p", "d">>)
            \/ includes(lowerUrl, <<"f", "o", "r", "m", "a", "t", "=", "m", "p", "d">>)
            \/ includes(lowerUrl, <<"/", "d", "a", "s", "h", "/">>)
    THEN "dash"
    ELSE "hls"

\* PlayerManager.detectStreamType
detectStreamType(u) ==
    LET lowerUrl == toLowerCase(u) IN
    IF \/ includes(lowerUrl, <<".", "m", "3", "u", "8">>)
       \/ includes(lowerUrl, <<"f", "o", "r", "m", "a", "t", "=", "m", "3", "u", "8">>)
       \/ includes(lowerUrl, <<"/", "h", "l", "s", "/">>)
       \/ includes(lowerUrl, <<"h", "l", "s", ".">>)
       \/ includes(lowerUrl, <<".", "m", "3", "u", "8", "?">>)
    THEN "hls"
    ELSE IF \/ includes(lowerUrl, <<".", "m", "p", "d">>)
            \/ includes(lowerUrl, <<"f", "o", "r", "m", "a", "t", "=", "m", "p", "d">>)
            \/ includes(lowerUrl, <<"/", "d", "a", "s", "h", "/">>)
    THEN "dash"
    ELSE IF \/ includes(lowerUrl, <<".", "m", "p", "4">>)
            \/ includes(lowerUrl, <<".", "w", "e", "b", "m">>)
            \/ includes(lowerUrl, <<".", "o", "g", "g">>)
            \/ includes(lowerUrl, <<".", "m", "o", "v">>)
    THEN "native"
    ELSE "hls"

----------------------------------------------------------------------------
(* Classifier inputs: locators are concatenations of fragments *)

Fragments ==
    { <<".", "m", "3", "u", "8">>,
      <<".", "M", "3", "U", "8">>,
      <<".", "M", "3", "u", "8">>,
      <<"f", "o", "r", "m", "a", "t", "=", "m", "3", "u", "8">>,
      <<"/", "h", "l", "s", "/">>,
      <<"/", "H", "L", "S", "/">>,
      <<"h", "l", "s", ".">>,
      <<".", "m", "p", "d">>,
      <<".", "M", "P", "D">>,
      <<"f", "o", "r", "m", "a", "t", "=", "m", "p", "d">>,
      <<"/", "d", "a", "s", "h", "/">>,
      <<".", "m", "p", "4">>,
      <<".", "M", "P", "4">>,
      <<".", "w", "e", "b", "m">>,
      <<".", "o", "g", "g">>,
      <<".", "m", "o", "v">>,
      <<"h", "t", "t", "p", ":", "/", "/", "x", "/", "s", "t", "r", "e", "a", "m">>,
      <<"?">>,
      <<"h">>,
      <<"l", "s", ".">>,
      <<".", "m", "3">>,
      <<"u", "8">>,
      <<"/">>,
      <<"x">> }

\* Locators the player is asked to load: live (no marker), a.mpd, a.mp4
PlayerUrls ==
    << <<"l", "i", "v", "e">>,
       <<"a", ".", "m", "p", "d">>,
       <<"a", ".", "m", "p", "4">> >>

\* Further locators, used where the quality levels of the stream matter: b.mpd
SelectorUrls ==
    << <<"b", ".", "m", "p", "d">> >>

AllUrls == PlayerUrls \o SelectorUrls

\* The heights of the levels each stream's manifest declares, in manifest
\* order: live has 1080, 720 and 480; a.mpd 480 and 1080; a.mp4 is a plain
\* file; b.mpd has the single level 720
StreamLevels ==
    << <<1080, 720, 480>>,
       <<480, 1080>>,
       <<>>,
       <<720>> >>

----------------------------------------------------------------------------
(* The player: one record bundles the mutable objects, so that a method is  *)
(* an operator from the state before the call to the state after it.        *)

LoadIds == 1..MaxLoads
UrlIds == 1..Len(PlayerUrls)
StreamIds == 1..Len(AllUrls)
AdapterNames == {"hls", "dash", "native"}

\* The objects as they are now
W == [pm |-> pm, hls |-> hls, dash |-> dash, video |-> video,
      timers |-> timers, loads |-> loads, qs |-> qs]

\* The elapsed time of a load() call is kept only while the call is current and
\* pending, the count of its engine's error events only while it is current
Commit(w) ==
    /\ pm' = w.pm
    /\ hls' = w.hls
    /\ dash' = w.dash
    /\ video' = w.video
    /\ timers' = w.timers
    /\ qs' = w.qs
    /\ loads' = [i \in LoadIds |->
                    [w.loads[i] EXCEPT
                        !.elapsed = IF w.loads[i].result = "pending"
                                       /\ ~w.loads[i].superseded
                                    THEN @ ELSE 0,
                        !.engineErrors = IF w.loads[i].superseded THEN 0 ELSE @]]

\* A load() call that has not been made yet
NoLoad ==
    [called |-> FALSE, url |-> 0, adapter |-> "none",
     ap |-> "none",            \* the adapter's load() promise
     race |-> "none",          \* Promise.race([loadPromise, timeoutPromise])
     result |-> "none",        \* what load() returned: "pending", "true", "false"
     notified |-> 0,           \* PlayerManager.onError calls made on behalf of this load
     timeoutNotified |-> FALSE,\* one of them was the 'Load timeout' error
     adapterError |-> FALSE,   \* the adapter reported an error while the race was pending
     engineErrors |-> 0,       \* error events the engine of this load has emitted
     superseded |-> FALSE,     \* stop() or a later load() was called after this one
     overPending |-> FALSE,    \* an earlier load() had not returned when this one was called
     attachedAtStart |-> {},   \* adapters holding an engine when this call's adapter.load began
     timeoutAt |-> -1,         \* elapsed time at which 'Load timeout' was reported
     elapsed |-> 0]            \* time since the call, while it is pending and current

NoTimer == [state |-> "unset", left |-> 0]

\* HlsAdapter with this.hls = null; levels and currentLevel are the engine's
NoHls == [engine |-> 0, resolved |-> FALSE, stage |-> "none",
          levels |-> <<>>, currentLevel |-> -1]

\* DashAdapter with this.player = null; levels (the video bitrate list),
\* autoSwitch and quality are the engine's
NoDash == [player |-> 0, initialized |-> FALSE,
           levels |-> <<>>, autoSwitch |-> TRUE, quality |-> 0]

\* new QualitySelector(): not yet initialized with a PlayerManager
NoSelector ==
    [playerManager |-> FALSE, levels |-> <<>>, currentQuality |-> -1,
     buttonHidden |-> TRUE, popupVisible |-> FALSE, options |-> <<>>]

\* A fresh video element in a document that shows nothing in fullscreen;
\* the volume is in tenths
NoMedia ==
    [src |-> "none", srcUrl |-> 0, paused |-> TRUE, listeners |-> <<>>,
     volume |-> 10, muted |-> FALSE, fullscreen |-> FALSE]

\* PlayerManager constructor, adapter constructors, a fresh video element
PlayerInit ==
    /\ pm = [currentAdapter |-> "none", currentUrl |-> 0, loadTimeoutId |-> 0,
             onLevelsAvailable |-> FALSE]
    /\ hls = NoHls
    /\ dash = NoDash
    /\ qs = NoSelector
    /\ video = NoMedia
    /\ timers = [i \in LoadIds |-> NoTimer]
    /\ loads = [i \in LoadIds |-> NoLoad]
    /\ nLoads = 0

\* clearTimeout(id)
clearTimeout(w, id) ==
    IF id # 0 /\ w.timers[id].state = "pending"
    THEN [w EXCEPT !.timers[id] = [state |-> "cleared", left |-> 0]]
    ELSE w

\* if (this.loadTimeoutId) { clearTimeout(this.loadTimeoutId); this.loadTimeoutId = null; }
cancelLoadTimeout(w) ==
    IF w.pm.loadTimeoutId # 0
    THEN [clearTimeout(w, w.pm.loadTimeoutId) EXCEPT !.pm.loadTimeoutId = 0]
    ELSE w

\* this.onError(error) of PlayerManager: App.handlePlayerError shows the error
\* and touches no player state
pmOnError(w, i, kind) ==
    [w EXCEPT !.loads[i].notified = @ + 1,
              !.loads[i].timeoutNotified = @ \/ (kind = "timeout"),
              !.loads[i].timeoutAt = IF kind = "timeout" /\ @ = -1
                                     THEN w.loads[i].elapsed ELSE @]

\* The currentAdapter.onError closure installed by setupAdapterEvents
adapterOnError(w, i, fatal) ==
    LET w0 == [w EXCEPT !.loads[i].adapterError = @ \/ (w.loads[i].race = "pending")]
        w1 == IF fatal THEN cancelLoadTimeout(w0) ELSE w0
    IN pmOnError(w1, i, "adapter")

\* The rest of load() with the success path leaving the timer armed
settleRaceKeepsTimer(w, i, how, kind) ==
    IF w.loads[i].race # "pending" THEN w
    ELSE IF how = "resolved"
    THEN [w EXCEPT !.loads[i].race = "resolved",
                   !.loads[i].result = "true"]
    ELSE [pmOnError(w, i, kind) EXCEPT !.loads[i].race = "rejected",
                                       !.loads[i].result = "false"]

\* The rest of load() after `await Promise.race(...)`, run when the race settles
settleRace(w, i, how, kind) ==
    IF w.loads[i].race # "pending" THEN w
    ELSE IF how = "resolved"
    THEN [cancelLoadTimeout(w) EXCEPT !.loads[i].race = "resolved",
                                      !.loads[i].result = "true"]
    ELSE [pmOnError(w, i, kind) EXCEPT !.loads[i].race = "rejected",
                                       !.loads[i].result = "false"]

\* resolve() of the adapter's load promise
resolveAdapter(w, i) ==
    IF w.loads[i].ap # "pending" THEN w
    ELSE settleRace([w EXCEPT !.loads[i].ap = "resolved"], i, "resolved", "none")

\* reject(...) of the adapter's load promise
rejectAdapter(w, i) ==
    IF w.loads[i].ap # "pending" THEN w
    ELSE settleRace([w EXCEPT !.loads[i].ap = "rejected"], i, "rejected", "adapter")

\* hls.destroy() / player.reset() detach the MediaSource from the video element
detachMedia(w, kind) ==
    IF w.video.src = kind
    THEN [w EXCEPT !.video.src = "none", !.video.srcUrl = 0]
    ELSE w

\* The adapters that hold an engine attached to the video element:
\* HlsAdapter through this.hls or, with native HLS, the src it set;
\* DashAdapter through this.player; NativeAdapter through the src it set
Attached(w) ==
    {a \in AdapterNames :
        \/ a = "hls" /\ (w.hls.engine # 0 \/ w.video.src = "hlsUrl")
        \/ a = "dash" /\ w.dash.player # 0
        \/ a = "native" /\ w.video.src = "file"}

\* HlsAdapter.destroy
hlsDestroy(w) ==
    IF w.hls.engine # 0
    THEN [detachMedia(w, "mseHls") EXCEPT !.hls = NoHls]
    ELSE w

\* DashAdapter.destroy
dashDestroy(w) ==
    IF w.dash.player # 0
    THEN [detachMedia(w, "mseDash") EXCEPT !.dash = NoDash]
    ELSE w

\* NativeAdapter.destroy: src = ''; load()
nativeDestroy(w) ==
    [w EXCEPT !.video.src = "empty", !.video.srcUrl = 0]

\* adapter.destroy() without effect
adapterDestroySkipped(w, a) == w

\* adapter.destroy(), by adapter type
adapterDestroy(w, a) ==
    CASE a = "hls" -> hlsDestroy(w)
      [] a = "dash" -> dashDestroy(w)
      [] a = "native" -> nativeDestroy(w)
      [] OTHER -> w

\* stop() that leaves the load timer armed
stopKeepsTimer(w) ==
    LET w2 == IF w.pm.currentAdapter # "none"
              THEN [adapterDestroy(w, w.pm.currentAdapter) EXCEPT
                        !.pm.currentAdapter = "none"]
              ELSE w
    IN [w2 EXCEPT !.video.paused = TRUE,
                  !.video.src = "none",
                  !.video.srcUrl = 0,
                  !.pm.currentUrl = 0,
                  !.loads = [i \in LoadIds |->
                                IF w2.loads[i].called
                                THEN [w2.loads[i] EXCEPT !.superseded = TRUE]
                                ELSE w2.loads[i]]]

\* PlayerManager.stop
stop(w) ==
    LET w1 == cancelLoadTimeout(w)
        w2 == IF w1.pm.currentAdapter # "none"
              THEN [adapterDestroy(w1, w1.pm.currentAdapter) EXCEPT
                        !.pm.currentAdapter = "none"]
              ELSE w1
        w3 == [w2 EXCEPT !.video.paused = TRUE,
                         !.video.src = "none",
                         !.video.srcUrl = 0]
    IN [w3 EXCEPT !.pm.currentUrl = 0,
                  !.loads = [i \in LoadIds |->
                                IF w3.loads[i].called
                                THEN [w3.loads[i] EXCEPT !.superseded = TRUE]
                                ELSE w3.loads[i]]]

\* addEventListener(ev, handler, { once: true }) on the video element
addListener(w, ev, i, kind) ==
    [w EXCEPT !.video.listeners = Append(@, [ev |-> ev, load |-> i, kind |-> kind])]

\* HlsAdapter.load, up to the return of the promise
hlsLoad(w, i, u) ==
    LET w1 == hlsDestroy(w) IN
    IF env.hlsMode = "native"
    THEN addListener(
             addListener([w1 EXCEPT !.video.src = "hlsUrl", !.video.srcUrl = u],
                         "loadedmetadata", i, "hlsNative"),
             "error", i, "hlsNative")
    ELSE IF env.hlsMode = "unsupported"
    THEN [w1 EXCEPT !.loads[i].ap = "rejected"]
    ELSE [w1 EXCEPT !.hls = [NoHls EXCEPT !.engine = i, !.stage = "attaching"],
                    !.video.src = "mseHls",
                    !.video.srcUrl = 0]

\* DashAdapter.load, up to the return of the promise; `throws` is an exception
\* raised inside the try block, which the catch turns into a rejection
dashLoad(w, i, u, throws) ==
    LET w1 == dashDestroy(w) IN
    IF ~env.dashSupported
    THEN [w1 EXCEPT !.loads[i].ap = "rejected"]
    ELSE IF throws
    THEN [w1 EXCEPT !.dash = [NoDash EXCEPT !.player = i],
                    !.loads[i].ap = "rejected"]
    ELSE [w1 EXCEPT !.dash = [NoDash EXCEPT !.player = i, !.initialized = TRUE],
                    !.video.src = "mseDash",
                    !.video.srcUrl = 0]

\* NativeAdapter.load, up to the return of the promise
nativeLoad(w, i, u) ==
    LET w1 == [w EXCEPT !.video.src = "empty", !.video.srcUrl = 0]
        w2 == addListener(addListener(w1, "loadedmetadata", i, "native"),
                          "error", i, "native")
    IN [w2 EXCEPT !.video.src = "file", !.video.srcUrl = u]

\* currentAdapter.load(url), by adapter type
adapterLoad(w, a, i, u, throws) ==
    CASE a = "hls" -> hlsLoad(w, i, u)
      [] a = "dash" -> dashLoad(w, i, u, throws)
      [] a = "native" -> nativeLoad(w, i, u)

\* PlayerManager.load, up to and including the continuation after `await`
\* when the adapter's promise was rejected inside its executor.
\* setupAdapterEvents installs adapterOnError on the adapter before any engine
\* or listener of that adapter exists, so every adapter error reaches it.
load(w, i, u, throws) ==
    LET w1 == stop(w)
        streamType == detectStreamType(AllUrls[u])
        w2 == [w1 EXCEPT !.pm.currentAdapter = streamType,
                         !.pm.currentUrl = u,
                         !.loads[i] = [NoLoad EXCEPT
                             !.called = TRUE,
                             !.url = u,
                             !.adapter = streamType,
                             !.ap = "pending",
                             !.race = "pending",
                             !.result = "pending",
                             !.overPending =
                                 \E j \in LoadIds : w.loads[j].result = "pending",
                             !.attachedAtStart = Attached(w1)]]
        w3 == adapterLoad(w2, streamType, i, u, throws)
        w4 == [w3 EXCEPT !.timers[i] = [state |-> "pending", left |-> LoadTimeoutUnits],
                         !.pm.loadTimeoutId = i]
    IN IF w4.loads[i].ap = "rejected"
       THEN settleRace(w4, i, "rejected", "adapter")
       ELSE w4

\* PlayerManager.destroy
destroy(w) ==
    nativeDestroy(dashDestroy(hlsDestroy(stop(w))))

----------------------------------------------------------------------------
(* Transport controls of PlayerManager *)

\* PlayerManager.play: videoElement.play().catch(console.error). play() on an
\* element without a source still clears its paused flag; when the browser
\* does not allow playback the promise is rejected and nothing changes.
play(w, allowed) ==
    IF allowed THEN [w EXCEPT !.video.paused = FALSE] ELSE w

\* PlayerManager.pause
pause(w) == [w EXCEPT !.video.paused = TRUE]

\* Math.max(0, Math.min(1, level)), in tenths
clampVolume(level) ==
    IF level < 0 THEN 0 ELSE IF level > 10 THEN 10 ELSE level

\* PlayerManager.setVolume
setVolume(w, level) == [w EXCEPT !.video.volume = clampVolume(level)]

\* PlayerManager.toggleMute
toggleMute(w) == [w EXCEPT !.video.muted = ~@]

\* PlayerManager.toggleFullscreen; `granted` is requestFullscreen() succeeding
toggleFullscreen(w, granted) ==
    IF ~w.video.fullscreen
    THEN (IF granted THEN [w EXCEPT !.video.fullscreen = TRUE] ELSE w)
    ELSE [w EXCEPT !.video.fullscreen = FALSE]

----------------------------------------------------------------------------
(* Quality levels of the adapters *)

\* levels.map((level, index) => ({ index, height: level.height, ... }));
\* a height of 0 stands for a level that declares no height
levelObjects(hs) == [k \in 1..Len(hs) |-> [index |-> k - 1, height |-> hs[k]]]

\* HlsAdapter.getQualityLevels
hlsGetQualityLevels(w) ==
    IF w.hls.engine = 0 THEN <<>> ELSE levelObjects(w.hls.levels)

\* DashAdapter.getQualityLevels
dashGetQualityLevels(w) ==
    IF w.dash.player = 0 THEN <<>> ELSE levelObjects(w.dash.levels)

\* NativeAdapter.getQualityLevels
nativeGetQualityLevels(w) == <<>>

\* getQualityLevels answering from the manifest of the current locator
getQualityLevelsOfUrl(w) ==
    IF w.pm.currentUrl = 0 THEN <<>>
    ELSE levelObjects(StreamLevels[w.pm.currentUrl])

\* PlayerManager.getQualityLevels
getQualityLevels(w) ==
    CASE w.pm.currentAdapter = "hls" -> hlsGetQualityLevels(w)
      [] w.pm.currentAdapter = "dash" -> dashGetQualityLevels(w)
      [] w.pm.currentAdapter = "native" -> nativeGetQualityLevels(w)
      [] OTHER -> <<>>

\* HlsAdapter.setQuality
hlsSetQuality(w, levelIndex) ==
    IF w.hls.engine # 0 THEN [w EXCEPT !.hls.currentLevel = levelIndex] ELSE w

\* setQuality that never switches automatic selection back on
dashSetQualityManualOnly(w, qualityIndex) ==
    IF w.dash.player = 0 \/ qualityIndex = -1 THEN w
    ELSE [w EXCEPT !.dash.autoSwitch = FALSE, !.dash.quality = qualityIndex]

\* DashAdapter.setQuality
dashSetQuality(w, qualityIndex) ==
    IF w.dash.player = 0 THEN w
    ELSE IF qualityIndex = -1
    THEN [w EXCEPT !.dash.autoSwitch = TRUE]
    ELSE [w EXCEPT !.dash.autoSwitch = FALSE, !.dash.quality = qualityIndex]

\* NativeAdapter.setQuality
nativeSetQuality(w, index) == w

\* PlayerManager.setQuality; nothing subscribes to onQualityChanged
setQuality(w, index) ==
    CASE w.pm.currentAdapter = "hls" -> hlsSetQuality(w, index)
      [] w.pm.currentAdapter = "dash" -> dashSetQuality(w, index)
      [] w.pm.currentAdapter = "native" -> nativeSetQuality(w, index)
      [] OTHER -> w

----------------------------------------------------------------------------
(* QualitySelector *)

\* QualitySelector.initialize: keeps the PlayerManager, hides the button
initialize(q) == [q EXCEPT !.playerManager = TRUE, !.buttonHidden = TRUE]

\* QualitySelector.formatLabel: '<height>p' when the level has a height,
\* otherwise a label made from the bitrate or the level's index
formatLabel(level) ==
    IF level.height # 0
    THEN [kind |-> "p", n |-> level.height]
    ELSE [kind |-> "other", n |-> level.index]

\* One step of the stable sort by (b.height || 0) - (a.height || 0): l goes
\* behind every entry that is at least as high
RECURSIVE insertByHeight(_, _)
insertByHeight(sorted, l) ==
    IF sorted = <<>> THEN <<l>>
    ELSE IF Head(sorted).height >= l.height
    THEN <<Head(sorted)>> \o insertByHeight(Tail(sorted), l)
    ELSE <<l>> \o sorted

\* The copy of the levels left in manifest order
sortByHeightSkipped(ls) == ls

\* [...this.levels].sort((a, b) => (b.height || 0) - (a.height || 0))
RECURSIVE sortByHeight(_)
sortByHeight(ls) ==
    IF ls = <<>> THEN <<>>
    ELSE insertByHeight(sortByHeight(SubSeq(ls, 1, Len(ls) - 1)), ls[Len(ls)])

AutoLabel == [kind |-> "auto", n |-> 0]

\* QualitySelector.render: the children of the popup
render(q) ==
    IF ~q.playerManager THEN q
    ELSE LET sorted == sortByHeight(q.levels) IN
         [q EXCEPT !.options =
             <<[index |-> -1, label |-> AutoLabel,
                active |-> (q.currentQuality = -1)]>>
             \o [k \in 1..Len(sorted) |->
                    [index |-> sorted[k].index,
                     label |-> formatLabel(sorted[k]),
                     active |-> (q.currentQuality = sorted[k].index)]]]

\* QualitySelector.hide
hide(q) == [q EXCEPT !.popupVisible = FALSE]

\* QualitySelector.show
show(q) ==
    IF ~q.playerManager \/ Len(q.levels) <= 1 THEN q
    ELSE [render(q) EXCEPT !.popupVisible = TRUE]

\* QualitySelector.toggle
toggle(q) == IF q.popupVisible THEN hide(q) ELSE show(q)

\* QualitySelector.updateLevels
updateLevels(w) ==
    IF ~w.qs.playerManager THEN w
    ELSE LET q1 == [w.qs EXCEPT !.levels = getQualityLevels(w),
                                !.currentQuality = -1]
         IN IF Len(q1.levels) <= 1
            THEN [w EXCEPT !.qs = [q1 EXCEPT !.buttonHidden = TRUE]]
            ELSE [w EXCEPT !.qs = render([q1 EXCEPT !.buttonHidden = FALSE])]

\* QualitySelector.clear
clear(q) ==
    hide([q EXCEPT !.levels = <<>>, !.currentQuality = -1, !.buttonHidden = TRUE])

\* QualitySelector.select
select(w, index) ==
    LET w1 == setQuality([w EXCEPT !.qs.currentQuality = index], index)
    IN [w1 EXCEPT !.qs = hide(render(w1.qs))]

\* The closure setupAdapterEvents installs as currentAdapter.onLevelsAvailable:
\* calls PlayerManager.onLevelsAvailable when it is set; App sets it to
\* () => qualitySelector.updateLevels()
adapterOnLevelsAvailable(w) ==
    IF w.pm.onLevelsAvailable THEN updateLevels(w) ELSE w

----------------------------------------------------------------------------
(* Video element events and the once-listeners the adapters leave on it *)

removeListener(w, ev, i, kind) ==
    [w EXCEPT !.video.listeners =
        SelectSeq(@, LAMBDA l : ~(l.ev = ev /\ l.load = i /\ l.kind = kind))]

isRegistered(w, l) ==
    \E k \in 1..Len(w.video.listeners) : w.video.listeners[k] = l

\* NativeAdapter.load loadedHandler / HlsAdapter.load native-HLS 'loadedmetadata' listener
loadedHandler(w, l) ==
    LET w1 == removeListener(w, "loadedmetadata", l.load, l.kind)
        w2 == IF l.kind = "native"
              THEN removeListener(w1, "error", l.load, "native")
              ELSE w1
    IN resolveAdapter(w2, l.load)

\* NativeAdapter.load errorHandler / HlsAdapter.load native-HLS 'error' listener
errorHandler(w, l) ==
    LET w1 == removeListener(w, "error", l.load, l.kind)
        w2 == IF l.kind = "native"
              THEN adapterOnError(w1, l.load, FALSE)
              ELSE w1
    IN rejectAdapter(w2, l.load)

\* Dispatch of one video event to the listeners registered for it, in order
RECURSIVE dispatch(_, _)
dispatch(w, ls) ==
    IF ls = <<>> THEN w
    ELSE LET l == Head(ls)
             w1 == IF ~isRegistered(w, l) THEN w
                   ELSE IF l.ev = "loadedmetadata" THEN loadedHandler(w, l)
                   ELSE errorHandler(w, l)
         IN dispatch(w1, Tail(ls))

listenersFor(ev) == SelectSeq(video.listeners, LAMBDA l : l.ev = ev)

----------------------------------------------------------------------------
(* Engine event handlers *)

\* hls.on(Hls.Events.ERROR, ...)
hlsErrorHandler(w, type, fatal) ==
    LET i == w.hls.engine IN
    IF ~fatal THEN w
    ELSE LET w1 == adapterOnError(w, i, TRUE) IN
         IF type \in {"networkError", "mediaError"} THEN w1
         ELSE IF ~w1.hls.resolved
         THEN rejectAdapter(hlsDestroy([w1 EXCEPT !.hls.resolved = TRUE]), i)
         ELSE w1

\* hls.on(Hls.Events.MANIFEST_PARSED, ...)
hlsManifestParsedHandler(w, autoplayBlocked) ==
    LET i == w.hls.engine IN
    IF ~w.hls.resolved
    THEN resolveAdapter([w EXCEPT !.hls.resolved = TRUE,
                                  !.video.paused = autoplayBlocked], i)
    ELSE w

\* player.on(dashjs.MediaPlayer.events.ERROR, ...)
dashErrorHandler(w) == adapterOnError(w, w.dash.player, FALSE)

\* player.on(dashjs.MediaPlayer.events.STREAM_INITIALIZED, ...)
dashStreamInitializedHandler(w) ==
    resolveAdapter(adapterOnLevelsAvailable(w), w.dash.player)

----------------------------------------------------------------------------
(* StreamRecorder *)

JobIds == 1..MaxJobs

\* The names setPreset is called with: the three presets, a name that is no
\* property of the presets object, and the name of a property every object
\* inherits from Object.prototype
PresetInputs == {"low", "medium", "high", "ultra", "constructor"}

\* this.presets[preset], as a truth value
presetsLookup(preset) ==
    preset \in {"low", "medium", "high"} \/ preset = "constructor"

\* A MediaRecorder that start() has not created yet
NoJob ==
    [state |-> "none",       \* MediaRecorder.state once created: "inactive", "recording"
     stopTask |-> FALSE,     \* stop() was called on it: its last data event and its stop event are queued
     stopReturned |-> FALSE, \* StreamRecorder.stop() has called its stop() and returned
     errored |-> FALSE,      \* it ended with an error event
     emitted |-> <<>>,       \* the non-empty data its data events have carried, in order
     nData |-> 0,            \* timeslice data events it has fired
     nBytes |-> 0]           \* bytes it has produced

NoVideo == [paused |-> TRUE, readyState |-> 0, supported |-> FALSE]

\* No onStop call
NoDelivery ==
    [job |-> 0, blob |-> [null |-> TRUE, bytes |-> <<>>], recording |-> FALSE,
     stopReturned |-> FALSE, errored |-> FALSE, emitted |-> <<>>]

\* The last operation or event of the recorder: what was called with which
\* input, what it returned, whether it called onError, what it handed to onStop
NoLast == [op |-> "none", video |-> NoVideo, name |-> "", result |-> "none",
           error |-> FALSE, delivery |-> NoDelivery]

\* new StreamRecorder(videoElement)
RecorderInit ==
    /\ rec = [recording |-> FALSE, mediaRecorder |-> 0, stream |-> 0,
              startTime |-> 0, recordedChunks |-> <<>>, currentPreset |-> "medium"]
    /\ jobs = [m \in JobIds |-> NoJob]
    /\ trace = [last |-> NoLast]
    /\ nJobs = 0

\* The recorder and its media recorders as they are now, with what the
\* recorder can reach from its page: the video element it was constructed
\* with, the PlayerManager and the timers
R == [rec |-> rec, jobs |-> jobs, trace |-> trace,
      video |-> video, pm |-> pm, timers |-> timers]

\* What a media recorder has emitted is kept while it can still fire events
CommitRecorder(r) ==
    /\ rec' = r.rec
    /\ jobs' = [m \in JobIds |->
                   IF r.jobs[m].state = "inactive" /\ ~r.jobs[m].stopTask
                   THEN [r.jobs[m] EXCEPT !.emitted = <<>>, !.nData = 0, !.nBytes = 0]
                   ELSE r.jobs[m]]
    /\ trace' = r.trace
    /\ video' = r.video
    /\ pm' = r.pm
    /\ timers' = r.timers

\* this.onError(error): App shows a toast
recorderOnError(r) == [r EXCEPT !.trace.last.error = TRUE]

\* StreamRecorder.setPreset
setPreset(r, preset) ==
    IF presetsLookup(preset)
    THEN [r EXCEPT !.rec.currentPreset = preset]
    ELSE r

\* StreamRecorder.canRecord
canRecord(v) == ~v.paused /\ v.readyState >= 2 /\ v.supported

\* StreamRecorder.isRecording
isRecording(r) == r.rec.recording

RECURSIVE Flatten(_)
Flatten(chunks) ==
    IF chunks = <<>> THEN <<>> ELSE Head(chunks) \o Flatten(Tail(chunks))

NullBlob == [null |-> TRUE, bytes |-> <<>>]

\* StreamRecorder.getBlob: null without chunks, else new Blob(recordedChunks)
getBlob(r) ==
    IF Len(r.rec.recordedChunks) = 0 THEN NullBlob
    ELSE [null |-> FALSE, bytes |-> Flatten(r.rec.recordedChunks)]

\* start() that keeps the chunks of the recording before
recorderStartKeepsChunks(r, v, throwsAt, m) ==
    IF r.rec.recording THEN [r EXCEPT !.trace.last.result = "false"]
    ELSE IF ~canRecord(v)
    THEN [recorderOnError(r) EXCEPT !.trace.last.result = "false"]
    ELSE IF throwsAt = "captureStream"
    THEN [recorderOnError(r) EXCEPT !.trace.last.result = "false"]
    ELSE LET r1 == [r EXCEPT !.rec.stream = m] IN
         IF throwsAt = "constructor"
         THEN [recorderOnError(r1) EXCEPT !.trace.last.result = "false"]
         ELSE LET r2 == [r1 EXCEPT !.rec.mediaRecorder = m,
                                   !.jobs[m].state = "inactive"] IN
              IF throwsAt = "start"
              THEN [recorderOnError(r2) EXCEPT !.trace.last.result = "false"]
              ELSE [r2 EXCEPT !.jobs[m].state = "recording",
                              !.rec.recording = TRUE,
                              !.rec.startTime = m,
                              !.trace.last.result = "true"]

\* start() that goes ahead while a recording is active
recorderStartUnguarded(r, v, throwsAt, m) ==
    IF ~canRecord(v)
    THEN [recorderOnError(r) EXCEPT !.trace.last.result = "false"]
    ELSE [r EXCEPT !.rec.stream = m,
                   !.rec.mediaRecorder = m,
                   !.rec.recordedChunks = <<>>,
                   !.jobs[m].state = "recording",
                   !.rec.recording = TRUE,
                   !.rec.startTime = m,
                   !.trace.last.result = "true"]

\* start() that creates the stream before it checks canRecord()
recorderStartCapturesFirst(r, v, throwsAt, m) ==
    IF r.rec.recording THEN [r EXCEPT !.trace.last.result = "false"]
    ELSE IF ~canRecord(v)
    THEN [recorderOnError([r EXCEPT !.rec.stream = m,
                                    !.rec.recordedChunks = <<>>])
             EXCEPT !.trace.last.result = "false"]
    ELSE [r EXCEPT !.rec.stream = m,
                   !.rec.mediaRecorder = m,
                   !.rec.recordedChunks = <<>>,
                   !.jobs[m].state = "recording",
                   !.rec.recording = TRUE,
                   !.rec.startTime = m,
                   !.trace.last.result = "true"]

\* StreamRecorder.start; m is the number of the MediaRecorder it creates,
\* throwsAt the call inside the try block that throws ("none": no call does);
\* startTime is the time of the m-th start
recorderStart(r, v, throwsAt, m) ==
    IF r.rec.recording THEN [r EXCEPT !.trace.last.result = "false"]
    ELSE IF ~canRecord(v)
    THEN [recorderOnError(r) EXCEPT !.trace.last.result = "false"]
    ELSE IF throwsAt = "captureStream"
    THEN [recorderOnError(r) EXCEPT !.trace.last.result = "false"]
    ELSE LET r1 == [r EXCEPT !.rec.stream = m] IN
         IF throwsAt = "constructor"
         THEN [recorderOnError(r1) EXCEPT !.trace.last.result = "false"]
         ELSE LET r2 == [r1 EXCEPT !.rec.mediaRecorder = m,
                                   !.rec.recordedChunks = <<>>,
                                   !.jobs[m].state = "inactive"] IN
              IF throwsAt = "start"
              THEN [recorderOnError(r2) EXCEPT !.trace.last.result = "false"]
              ELSE [r2 EXCEPT !.jobs[m].state = "recording",
                              !.rec.recording = TRUE,
                              !.rec.startTime = m,
                              !.trace.last.result = "true"]

\* stop() that also pauses the video it was recording
recorderStopPauses(r, throws) ==
    IF ~r.rec.recording \/ r.rec.mediaRecorder = 0
    THEN [r EXCEPT !.trace.last.result = "false"]
    ELSE LET m == r.rec.mediaRecorder
         IN [r EXCEPT !.jobs[m].state = "inactive",
                      !.jobs[m].stopTask = (r.jobs[m].state = "recording"),
                      !.jobs[m].stopReturned = TRUE,
                      !.rec.stream = 0,
                      !.video.paused = TRUE,
                      !.trace.last.result = "true"]

\* StreamRecorder.stop; `throws` is mediaRecorder.stop() throwing.
\* MediaRecorder.stop() on an inactive recorder returns without effect.
recorderStop(r, throws) ==
    IF ~r.rec.recording \/ r.rec.mediaRecorder = 0
    THEN [r EXCEPT !.trace.last.result = "false"]
    ELSE IF throws
    THEN [r EXCEPT !.rec.recording = FALSE, !.trace.last.result = "false"]
    ELSE LET m == r.rec.mediaRecorder
             r1 == IF r.jobs[m].state = "recording"
                   THEN [r EXCEPT !.jobs[m].state = "inactive",
                                  !.jobs[m].stopTask = TRUE]
                   ELSE r
         IN [r1 EXCEPT !.jobs[m].stopReturned = TRUE,
                       !.rec.stream = 0,
                       !.trace.last.result = "true"]

\* StreamRecorder.destroy
recorderDestroy(r) ==
    LET r1 == IF r.rec.recording THEN recorderStop(r, FALSE) ELSE r
    IN [r1 EXCEPT !.rec.recordedChunks = <<>>,
                  !.rec.mediaRecorder = 0,
                  !.rec.stream = 0,
                  !.trace.last.result = "none"]

\* StreamRecorder.save: null without a blob; else what the save dialog of the
\* main process returns (a path, or null when the user cancels), or the catch
\* branch when the conversion or the IPC call throws
recorderSave(r, outcome) ==
    IF getBlob(r).null THEN [r EXCEPT !.trace.last.result = "null"]
    ELSE IF outcome = "throws"
    THEN [recorderOnError(r) EXCEPT !.trace.last.result = "null"]
    ELSE [r EXCEPT !.trace.last.result =
                       IF outcome = "saved" THEN "path" ELSE "null"]

\* ondataavailable putting the new chunk in front of the others
ondataavailablePrepends(r, data) ==
    IF Len(data) > 0
    THEN [r EXCEPT !.rec.recordedChunks = <<data>> \o @]
    ELSE r

\* mediaRecorder.ondataavailable
ondataavailable(r, data) ==
    IF Len(data) > 0
    THEN [r EXCEPT !.rec.recordedChunks = Append(@, data)]
    ELSE r

\* onstop handing the blob over before it clears the recording flag
onstopDeliversFirst(r, m) ==
    [r EXCEPT !.rec.recording = FALSE,
              !.trace.last.delivery =
                  [job |-> m, blob |-> getBlob(r),
                   recording |-> r.rec.recording,
                   stopReturned |-> r.jobs[m].stopReturned,
                   errored |-> r.jobs[m].errored,
                   emitted |-> r.jobs[m].emitted]]

\* mediaRecorder.onstop: this.onStop(this.getBlob(), duration), on which
\* App.handleRecordingStop saves that blob
onstop(r, m) ==
    LET r1 == [r EXCEPT !.rec.recording = FALSE]
    IN [r1 EXCEPT !.trace.last.delivery =
                      [job |-> m, blob |-> getBlob(r1),
                       recording |-> r1.rec.recording,
                       stopReturned |-> r1.jobs[m].stopReturned,
                       errored |-> r1.jobs[m].errored,
                       emitted |-> r1.jobs[m].emitted]]

\* mediaRecorder.onerror
onerror(r, m) == recorderOnError([r EXCEPT !.rec.recording = FALSE])

\* The bytes of the next data event of media recorder m
chunkData(r, m, size) ==
    [k \in 1..size |-> [job |-> m, n |-> r.jobs[m].nBytes + k]]

\* Media recorder m fires a data event of the given size
fireData(r, m, size) ==
    LET data == chunkData(r, m, size)
        r1 == [r EXCEPT !.jobs[m].nBytes = @ + size,
                        !.jobs[m].emitted = IF size > 0 THEN Append(@, data) ELSE @]
    IN ondataavailable(r1, data)

----------------------------------------------------------------------------
(* KeyboardShortcuts and the settings of the main process *)

DEFAULT_SHORTCUTS ==
    [playPause |-> " ", mute |-> "m", fullscreen |-> "f",
     volumeUp |-> "ArrowUp", volumeDown |-> "ArrowDown",
     prevChannel |-> "ArrowLeft", nextChannel |-> "ArrowRight"]

ShortcutActions == DOMAIN DEFAULT_SHORTCUTS

\* The value of a property an object does not have
Absent == "undefined"

\* SettingsCache.getDefaults: shortcuts {} and history []
AppInit ==
    /\ kbd = DEFAULT_SHORTCUTS
    /\ settings = [shortcuts |-> [a \in ShortcutActions |-> Absent],
                   history |-> <<>>]
    /\ nReAdds = 0

\* KeyboardShortcuts.save: setSetting('shortcuts', this.shortcuts), which
\* the main process stores with SettingsCache.set
shortcutsSave(sh, st) == [st EXCEPT !.shortcuts = sh]

\* KeyboardShortcuts.rebind, up to the save() call
rebind(sh, action, key) ==
    IF action \notin ShortcutActions THEN sh
    ELSE [a \in ShortcutActions |->
             IF a = action THEN key
             ELSE IF sh[a] = key THEN "" ELSE sh[a]]

\* KeyboardShortcuts.initialize: `if (saved[action])` takes a saved binding
\* that is neither missing nor the empty string
shortcutsInitialize(sh, saved) ==
    [a \in ShortcutActions |->
        IF saved[a] # Absent /\ saved[a] # "" THEN saved[a] ELSE sh[a]]

----------------------------------------------------------------------------
(* The watch history of the settings cache *)

\* addToHistory that keeps the channel's earlier entry
addToHistoryNoFilter(history, channel) ==
    LET added == <<[url |-> channel]>> \o history
    IN IF Len(added) > maxHistory THEN SubSeq(added, 1, maxHistory) ELSE added

\* SettingsCache.addToHistory; a channel is its url
addToHistory(history, channel) ==
    LET filtered == SelectSeq(history, LAMBDA c : c.url # channel)
        added == <<[url |-> channel]>> \o filtered
    IN IF Len(added) > maxHistory THEN SubSeq(added, 1, maxHistory) ELSE added

----------------------------------------------------------------------------
(* Time *)

PendingTimers == {i \in LoadIds : timers[i].state = "pending"}

\* load() calls that are current and have not returned
Running == {i \in LoadIds : loads[i].called /\ loads[i].result = "pending"
                            /\ ~loads[i].superseded}

SetMin(S) == CHOOSE x \in S : \A y \in S : x <= y

TickAmount == SetMin({TickStep} \cup {timers[i].left : i \in PendingTimers})

\* The setTimeout callback tearing the current adapter down as well
timeoutCallbackDestroys(w, i) ==
    adapterDestroy(
        settleRace([w EXCEPT !.timers[i] = [state |-> "fired", left |-> 0]],
                   i, "rejected", "timeout"),
        w.pm.currentAdapter)

\* The setTimeout callback of load(): reject(new Error('Load timeout'))
timeoutCallback(w, i) ==
    settleRace([w EXCEPT !.timers[i] = [state |-> "fired", left |-> 0]],
               i, "rejected", "timeout")

----------------------------------------------------------------------------
(* Actions of the player *)

Load(u, throws) ==
    /\ nLoads < MaxLoads
    /\ throws => (detectStreamType(AllUrls[u]) = "dash" /\ env.dashSupported)
    /\ Commit(load(W, nLoads + 1, u, throws))
    /\ nLoads' = nLoads + 1
    /\ UNCHANGED <<env, classifierVars, recorderVars, appVars>>

Stop ==
    /\ Commit(stop(W))
    /\ UNCHANGED <<nLoads, env, classifierVars, recorderVars, appVars>>

Destroy ==
    /\ Commit(destroy(W))
    /\ UNCHANGED <<nLoads, env, classifierVars, recorderVars, appVars>>

TimerFire(i) ==
    /\ timers[i].state = "pending"
    /\ timers[i].left = 0
    /\ Commit(timeoutCallback(W, i))
    /\ UNCHANGED <<nLoads, env, classifierVars, recorderVars, appVars>>

\* Time passes; a timer fires when it is due, never later
Tick ==
    /\ TickAmount > 0
    /\ \/ PendingTimers # {}
       \/ \E i \in Running : loads[i].elapsed <= LoadTimeoutUnits
    /\ timers' = [i \in LoadIds |->
                    IF i \in PendingTimers
                    THEN [timers[i] EXCEPT !.left = @ - TickAmount]
                    ELSE timers[i]]
    /\ loads' = [i \in LoadIds |->
                    IF i \in Running /\ loads[i].elapsed <= LoadTimeoutUnits
                    THEN [loads[i] EXCEPT !.elapsed = @ + TickAmount]
                    ELSE loads[i]]
    /\ UNCHANGED <<pm, hls, dash, video, nLoads, env, qs, classifierVars, recorderVars, appVars>>

HlsMediaAttached ==
    /\ hls.engine # 0
    /\ hls.stage = "attaching"
    /\ hls' = [hls EXCEPT !.stage = "loading"]
    /\ UNCHANGED <<pm, dash, video, timers, loads, nLoads, env, qs, classifierVars, recorderVars, appVars>>

HlsManifestParsed(autoplayBlocked) ==
    /\ hls.engine # 0
    /\ hls.stage = "loading"
    /\ Commit(hlsManifestParsedHandler(
                  [W EXCEPT !.hls.levels = StreamLevels[loads[hls.engine].url]],
                  autoplayBlocked))
    /\ UNCHANGED <<nLoads, env, classifierVars, recorderVars, appVars>>

HlsError(type, fatal) ==
    /\ hls.engine # 0
    /\ loads[hls.engine].engineErrors < MaxEngineErrors
    /\ Commit(hlsErrorHandler([W EXCEPT !.loads[hls.engine].engineErrors = @ + 1],
                               type, fatal))
    /\ UNCHANGED <<nLoads, env, classifierVars, recorderVars, appVars>>

DashError ==
    /\ dash.player # 0
    /\ dash.initialized
    /\ loads[dash.player].engineErrors < MaxEngineErrors
    /\ Commit(dashErrorHandler([W EXCEPT !.loads[dash.player].engineErrors = @ + 1]))
    /\ UNCHANGED <<nLoads, env, classifierVars, recorderVars, appVars>>

DashStreamInitialized ==
    /\ dash.player # 0
    /\ dash.initialized
    /\ Commit(dashStreamInitializedHandler(
                  [W EXCEPT !.dash.levels = StreamLevels[loads[dash.player].url]]))
    /\ UNCHANGED <<nLoads, env, classifierVars, recorderVars, appVars>>

VideoLoadedMetadata ==
    /\ video.src \in {"file", "hlsUrl", "mseHls", "mseDash"}
    /\ Commit(dispatch(W, listenersFor("loadedmetadata")))
    /\ UNCHANGED <<nLoads, env, classifierVars, recorderVars, appVars>>

VideoError ==
    /\ video.src # "none"
    /\ Commit(dispatch(W, listenersFor("error")))
    /\ UNCHANGED <<nLoads, env, classifierVars, recorderVars, appVars>>

Init ==
    /\ PlayerInit
    /\ env \in [hlsMode : {"hlsjs", "native", "unsupported"}, dashSupported : BOOLEAN]
    /\ url = <<>>
    /\ nParts = 0
    /\ detected = "none"
    /\ RecorderInit
    /\ AppInit

Next ==
    \/ \E u \in UrlIds, throws \in BOOLEAN : Load(u, throws)
    \/ Stop
    \/ Destroy
    \/ \E i \in LoadIds : TimerFire(i)
    \/ Tick
    \/ HlsMediaAttached
    \/ \E b \in BOOLEAN : HlsManifestParsed(b)
    \/ \E type \in {"networkError", "mediaError", "otherError"}, fatal \in BOOLEAN :
           HlsError(type, fatal)
    \/ DashError
    \/ DashStreamInitialized
    \/ VideoLoadedMetadata
    \/ VideoError

Spec == Init /\ [][Next]_vars

----------------------------------------------------------------------------
(* The classifier on its own: build a locator, classify it *)

AppendFragment(f) ==
    /\ detected = "none"
    /\ nParts < MaxFragments
    /\ url' = url \o f
    /\ nParts' = nParts + 1
    /\ UNCHANGED <<detected, playerVars, recorderVars, appVars>>

Detect ==
    /\ detected = "none"
    /\ detected' = detectStreamType(url)
    /\ UNCHANGED <<url, nParts, playerVars, recorderVars, appVars>>

InitClassify ==
    /\ PlayerInit
    /\ env = [hlsMode |-> "hlsjs", dashSupported |-> TRUE]
    /\ url = <<>>
    /\ nParts = 0
    /\ detected = "none"
    /\ RecorderInit
    /\ AppInit

NextClassify ==
    \/ \E f \in Fragments : AppendFragment(f)
    \/ Detect

SpecClassify == InitClassify /\ [][NextClassify]_vars

----------------------------------------------------------------------------
(* The renderer: App wires the quality selector to the PlayerManager *)

\* App.handleChannelSelected with the internal player: playerManager.load(url)
ChannelSelected(u) == Load(u, FALSE)

\* The 'back to library' click handler and App.openPlaylist:
\* playerManager.stop(); qualitySelector.clear()
BackToLibrary ==
    /\ LET w1 == stop(W) IN Commit([w1 EXCEPT !.qs = clear(w1.qs)])
    /\ UNCHANGED <<nLoads, env, classifierVars, recorderVars, appVars>>

\* Click on the quality button (possible while the button is shown)
QualityButtonClick ==
    /\ qs.playerManager
    /\ ~qs.buttonHidden
    /\ qs' = toggle(qs)
    /\ UNCHANGED <<pm, hls, dash, video, timers, loads, nLoads, env, classifierVars, recorderVars, appVars>>

\* Click on the k-th option of the open popup
QualityOptionClick(k) ==
    /\ qs.popupVisible
    /\ k \in 1..Len(qs.options)
    /\ Commit(select(W, qs.options[k].index))
    /\ UNCHANGED <<nLoads, env, classifierVars, recorderVars, appVars>>

\* Click outside the popup and the button (_outsideClickHandler)
OutsideClick ==
    /\ qs.popupVisible
    /\ qs' = hide(qs)
    /\ UNCHANGED <<pm, hls, dash, video, timers, loads, nLoads, env, classifierVars, recorderVars, appVars>>

\* App.initializeManagers: the PlayerManager with onLevelsAvailable set to
\* () => qualitySelector.updateLevels(), and qualitySelector.initialize(...)
InitQuality ==
    /\ pm = [currentAdapter |-> "none", currentUrl |-> 0, loadTimeoutId |-> 0,
             onLevelsAvailable |-> TRUE]
    /\ hls = NoHls
    /\ dash = NoDash
    /\ qs = initialize(NoSelector)
    /\ video = NoMedia
    /\ timers = [i \in LoadIds |-> NoTimer]
    /\ loads = [i \in LoadIds |-> NoLoad]
    /\ nLoads = 0
    /\ env \in [hlsMode : {"hlsjs", "native"}, dashSupported : {TRUE}]
    /\ url = <<>>
    /\ nParts = 0
    /\ detected = "none"
    /\ RecorderInit
    /\ AppInit

\* Of the engines' error events only the one that changes an engine is taken:
\* the fatal error hls.js does not recover from, on which HlsAdapter destroys
\* its engine. The others reach the error subscriber and leave the adapters,
\* their levels and the selector as they are.
NextQuality ==
    \/ \E u \in StreamIds : ChannelSelected(u)
    \/ Stop
    \/ BackToLibrary
    \/ QualityButtonClick
    \/ \E k \in 1..(MaxLevels + 1) : QualityOptionClick(k)
    \/ OutsideClick
    \/ \E i \in LoadIds : TimerFire(i)
    \/ Tick
    \/ HlsMediaAttached
    \/ \E b \in BOOLEAN : HlsManifestParsed(b)
    \/ HlsError("otherError", TRUE)
    \/ DashStreamInitialized
    \/ VideoLoadedMetadata
    \/ VideoError

SpecQuality == InitQuality /\ [][NextQuality]_vars

\* What the event loop runs without the user: due timers, engine events and
\* video events. A callback that is ready is eventually run.
EventLoopStep ==
    \/ \E i \in LoadIds : TimerFire(i)
    \/ Tick
    \/ HlsMediaAttached
    \/ \E b \in BOOLEAN : HlsManifestParsed(b)
    \/ DashStreamInitialized
    \/ VideoLoadedMetadata

FairSpecQuality == SpecQuality /\ WF_vars(EventLoopStep)

----------------------------------------------------------------------------
(* The transport controls: the keyboard shortcuts and the media session call *)
(* them whether or not a stream is loaded                                    *)

\* Levels handed to setVolume, in tenths: below the range, inside, above
VolumeLevels == {-5, 5, 15}

Play(allowed) ==
    /\ Commit(play(W, allowed))
    /\ UNCHANGED <<nLoads, env, classifierVars, recorderVars, appVars>>

Pause ==
    /\ Commit(pause(W))
    /\ UNCHANGED <<nLoads, env, classifierVars, recorderVars, appVars>>

SetVolume(level) ==
    /\ Commit(setVolume(W, level))
    /\ UNCHANGED <<nLoads, env, classifierVars, recorderVars, appVars>>

ToggleMute ==
    /\ Commit(toggleMute(W))
    /\ UNCHANGED <<nLoads, env, classifierVars, recorderVars, appVars>>

ToggleFullscreen(granted) ==
    /\ Commit(toggleFullscreen(W, granted))
    /\ UNCHANGED <<nLoads, env, classifierVars, recorderVars, appVars>>

InitTransport ==
    /\ PlayerInit
    /\ env = [hlsMode |-> "hlsjs", dashSupported |-> TRUE]
    /\ url = <<>>
    /\ nParts = 0
    /\ detected = "none"
    /\ RecorderInit
    /\ AppInit

NextTransport ==
    \/ \E u \in UrlIds : Load(u, FALSE)
    \/ Stop
    \/ HlsMediaAttached
    \/ \E b \in BOOLEAN : HlsManifestParsed(b)
    \/ DashStreamInitialized
    \/ VideoLoadedMetadata
    \/ \E allowed \in BOOLEAN : Play(allowed)
    \/ Pause
    \/ \E level \in VolumeLevels : SetVolume(level)
    \/ ToggleMute
    \/ \E granted \in BOOLEAN : ToggleFullscreen(granted)

SpecTransport == InitTransport /\ [][NextTransport]_vars

----------------------------------------------------------------------------
(* render() on its own: a selector holding some levels and a selection *)

\* Heights a level may declare; 0 stands for no height
LevelHeights == {0, 480, 720, 1080}

LevelLists == UNION {[1..n -> LevelHeights] : n \in 0..MaxLevels}

Render ==
    /\ qs.options = <<>>
    /\ qs' = render(qs)
    /\ UNCHANGED <<pm, hls, dash, video, timers, loads, nLoads, env, classifierVars, recorderVars, appVars>>

InitRender ==
    /\ pm = [currentAdapter |-> "none", currentUrl |-> 0, loadTimeoutId |-> 0,
             onLevelsAvailable |-> TRUE]
    /\ hls = NoHls
    /\ dash = NoDash
    /\ \E hs \in LevelLists, q \in -1..(MaxLevels - 1) :
           qs = [initialize(NoSelector) EXCEPT !.levels = levelObjects(hs),
                                               !.currentQuality = q]
    /\ video = NoMedia
    /\ timers = [i \in LoadIds |-> NoTimer]
    /\ loads = [i \in LoadIds |-> NoLoad]
    /\ nLoads = 0
    /\ env = [hlsMode |-> "hlsjs", dashSupported |-> TRUE]
    /\ url = <<>>
    /\ nParts = 0
    /\ detected = "none"
    /\ RecorderInit
    /\ AppInit

NextRender == Render

SpecRender == InitRender /\ [][NextRender]_vars

----------------------------------------------------------------------------
(* The recorder on its own: calls of its methods, events of its media       *)
(* recorders. The video element is an input of start().                     *)

\* The video element and the browser at the time of a start() call: playing
\* with data for the current position, paused, playing with metadata only, or
\* playing in a browser that cannot record video/webm with vp8 and opus
VideoStates ==
    { [paused |-> FALSE, readyState |-> 2, supported |-> TRUE],
      [paused |-> TRUE, readyState |-> 4, supported |-> TRUE],
      [paused |-> FALSE, readyState |-> 1, supported |-> TRUE],
      [paused |-> FALSE, readyState |-> 4, supported |-> FALSE] }

ThrowPoints == {"none", "captureStream", "constructor", "start"}

\* Sizes of the data a data event carries: none, or two bytes
ChunkSizes == {0, 2}

Called_(op, v, name) ==
    [op |-> op, video |-> v, name |-> name, result |-> "none", error |-> FALSE,
     delivery |-> NoDelivery]

\* start() is called; a MediaRecorder is created unless start() returns
\* before `new MediaRecorder`
RecorderStart(v, throwsAt) ==
    LET entersTry == ~rec.recording /\ canRecord(v)
        creates == entersTry /\ throwsAt \notin {"captureStream", "constructor"}
    IN /\ throwsAt # "none" => entersTry
       /\ entersTry => nJobs < MaxJobs
       /\ CommitRecorder(recorderStart([R EXCEPT !.trace.last = Called_("start", v, "")],
                                       v, throwsAt, nJobs + 1))
       /\ nJobs' = IF creates \/ (entersTry /\ throwsAt = "constructor")
                   THEN nJobs + 1 ELSE nJobs
       /\ UNCHANGED <<classifierVars, engineVars, appVars>>

\* stop() is called; MediaRecorder.stop() does not throw
RecorderStop ==
    /\ CommitRecorder(recorderStop([R EXCEPT !.trace.last = Called_("stop", NoVideo, "")],
                                   FALSE))
    /\ UNCHANGED <<nJobs, classifierVars, engineVars, appVars>>

\* setPreset(name) is called: by App.loadRecordingPreset with the stored
\* setting, by the settings view with the chosen option
SetPreset(name) ==
    /\ CommitRecorder(setPreset([R EXCEPT !.trace.last =
                                     Called_("setPreset", NoVideo, name)], name))
    /\ UNCHANGED <<nJobs, classifierVars, engineVars, appVars>>

RecorderDestroy ==
    /\ CommitRecorder(recorderDestroy([R EXCEPT !.trace.last =
                                           Called_("destroy", NoVideo, "")]))
    /\ UNCHANGED <<nJobs, classifierVars, engineVars, appVars>>

\* A timeslice has passed: media recorder m fires a data event
DataAvailable(m, size) ==
    /\ jobs[m].state = "recording"
    /\ jobs[m].nData < MaxChunks
    /\ CommitRecorder(fireData([R EXCEPT !.trace.last =
                                    Called_("dataavailable", NoVideo, ""),
                                         !.jobs[m].nData = @ + 1], m, size))
    /\ UNCHANGED <<nJobs, classifierVars, engineVars, appVars>>

\* The task MediaRecorder.stop() queued: the last data event, then the stop event
RecorderStopped(m, size) ==
    /\ jobs[m].stopTask
    /\ CommitRecorder(onstop(fireData([R EXCEPT !.trace.last =
                                           Called_("stopped", NoVideo, ""),
                                                !.jobs[m].stopTask = FALSE],
                                      m, size), m))
    /\ UNCHANGED <<nJobs, classifierVars, engineVars, appVars>>

\* Media recorder m fails while recording: it becomes inactive and fires, in
\* one task, its error event, its last data event and its stop event
RecorderError(m, size) ==
    /\ jobs[m].state = "recording"
    /\ CommitRecorder(
           onstop(fireData(onerror([R EXCEPT !.trace.last =
                                        Called_("error", NoVideo, ""),
                                             !.jobs[m].state = "inactive",
                                             !.jobs[m].errored = TRUE], m),
                           m, size), m))
    /\ UNCHANGED <<nJobs, classifierVars, engineVars, appVars>>

InitRecorder ==
    /\ PlayerInit
    /\ env = [hlsMode |-> "hlsjs", dashSupported |-> TRUE]
    /\ url = <<>>
    /\ nParts = 0
    /\ detected = "none"
    /\ RecorderInit
    /\ AppInit

\* save() is called: by App.handleRecordingStop, on onStop
RecorderSave(outcome) ==
    /\ CommitRecorder(recorderSave([R EXCEPT !.trace.last =
                                        Called_("save", NoVideo, "")], outcome))
    /\ UNCHANGED <<nJobs, classifierVars, engineVars, appVars>>

NextRecorder ==
    \/ \E v \in VideoStates, throwsAt \in ThrowPoints : RecorderStart(v, throwsAt)
    \/ RecorderStop
    \/ \E name \in PresetInputs : SetPreset(name)
    \/ RecorderDestroy
    \/ \E m \in JobIds, size \in ChunkSizes : DataAvailable(m, size)
    \/ \E m \in JobIds, size \in ChunkSizes : RecorderStopped(m, size)
    \/ \E m \in JobIds, size \in ChunkSizes : RecorderError(m, size)

SpecRecorder == InitRecorder /\ [][NextRecorder]_vars

----------------------------------------------------------------------------
(* The recorder beside a player that is idle, loading or playing *)

\* A PlayerManager just constructed
IdleWorld ==
    [pm |-> [currentAdapter |-> "none", currentUrl |-> 0, loadTimeoutId |-> 0,
             onLevelsAvailable |-> FALSE],
     hls |-> NoHls, dash |-> NoDash, video |-> NoMedia,
     timers |-> [i \in LoadIds |-> NoTimer],
     loads |-> [i \in LoadIds |-> NoLoad],
     qs |-> NoSelector]

\* load('a.mp4') was called and waits for the video element
LoadingWorld == load(IdleWorld, 1, 3, FALSE)

\* The video element has fired loadedmetadata, load() has returned true and
\* App.handleChannelSelected has called play()
PlayingWorld ==
    play(loadedHandler(LoadingWorld,
                       [ev |-> "loadedmetadata", load |-> 1, kind |-> "native"]),
         TRUE)

InitCapture ==
    /\ \E w \in {IdleWorld, LoadingWorld, PlayingWorld} :
           /\ pm = w.pm
           /\ hls = w.hls
           /\ dash = w.dash
           /\ video = w.video
           /\ timers = w.timers
           /\ loads = w.loads
           /\ qs = w.qs
           /\ nLoads = IF w.loads[1].called THEN 1 ELSE 0
    /\ env = [hlsMode |-> "hlsjs", dashSupported |-> TRUE]
    /\ url = <<>>
    /\ nParts = 0
    /\ detected = "none"
    /\ RecorderInit
    /\ AppInit

\* start() reads the paused flag of the video element as it is
CaptureStart(v, throwsAt) ==
    /\ v.paused = video.paused
    /\ RecorderStart(v, throwsAt)

SaveOutcomes == {"saved", "cancelled", "throws"}

NextCapture ==
    \/ \E v \in VideoStates, throwsAt \in ThrowPoints : CaptureStart(v, throwsAt)
    \/ RecorderStop
    \/ \E name \in PresetInputs : SetPreset(name)
    \/ \E outcome \in SaveOutcomes : RecorderSave(outcome)
    \/ RecorderDestroy
    \/ \E m \in JobIds, size \in ChunkSizes : DataAvailable(m, size)
    \/ \E m \in JobIds, size \in ChunkSizes : RecorderStopped(m, size)
    \/ \E m \in JobIds, size \in ChunkSizes : RecorderError(m, size)

SpecCapture == InitCapture /\ [][NextCapture]_vars

----------------------------------------------------------------------------
(* The shortcut settings: rebinding, resetting and starting the app again *)

\* The actions the settings view rebinds, and one KeyboardShortcuts ignores
RebindActions == ShortcutActions \cup {"unknown"}

\* The keys pressed to rebind: two that are bound by default, one that is not
RebindKeys == {"m", "f", "k"}

Rebind(action, key) ==
    /\ kbd' = rebind(kbd, action, key)
    /\ settings' = IF action \in ShortcutActions
                   THEN shortcutsSave(kbd', settings) ELSE settings
    /\ UNCHANGED <<nReAdds, classifierVars, playerVars, recorderVars>>

ResetToDefaults ==
    /\ kbd' = DEFAULT_SHORTCUTS
    /\ settings' = shortcutsSave(kbd', settings)
    /\ UNCHANGED <<nReAdds, classifierVars, playerVars, recorderVars>>

\* The app is started again: new KeyboardShortcuts(), then initialize()
\* with the settings the main process has stored
Reinitialize ==
    /\ kbd' = shortcutsInitialize(DEFAULT_SHORTCUTS, settings.shortcuts)
    /\ UNCHANGED <<settings, nReAdds, classifierVars, playerVars, recorderVars>>

InitShortcuts ==
    /\ PlayerInit
    /\ env = [hlsMode |-> "hlsjs", dashSupported |-> TRUE]
    /\ url = <<>>
    /\ nParts = 0
    /\ detected = "none"
    /\ RecorderInit
    /\ AppInit

NextShortcuts ==
    \/ \E action \in RebindActions, key \in RebindKeys : Rebind(action, key)
    \/ ResetToDefaults
    \/ Reinitialize

SpecShortcuts == InitShortcuts /\ [][NextShortcuts]_vars

----------------------------------------------------------------------------
(* The watch history: channels are added as they are selected *)

Channels == 1..MaxChannels

HistoryUrls == {settings.history[k].url : k \in 1..Len(settings.history)}

\* The channel selected next: one not in the history, or the newest or the
\* oldest entry of the history again
HistoryInputs ==
    LET unused == Channels \ HistoryUrls
        fresh == IF unused = {} THEN {} ELSE {SetMin(unused)}
        again == IF settings.history = <<>> \/ nReAdds >= MaxReAdds THEN {}
                 ELSE {settings.history[1].url,
                       settings.history[Len(settings.history)].url}
    IN fresh \cup again

AddToHistory(channel) ==
    /\ channel \in HistoryInputs
    /\ settings' = [settings EXCEPT !.history = addToHistory(@, channel)]
    /\ nReAdds' = IF channel \in HistoryUrls THEN nReAdds + 1 ELSE nReAdds
    /\ UNCHANGED <<kbd, classifierVars, playerVars, recorderVars>>

InitHistory ==
    /\ PlayerInit
    /\ env = [hlsMode |-> "hlsjs", dashSupported |-> TRUE]
    /\ url = <<>>
    /\ nParts = 0
    /\ detected = "none"
    /\ RecorderInit
    /\ AppInit

NextHistory == \E channel \in Channels : AddToHistory(channel)

SpecHistory == InitHistory /\ [][NextHistory]_vars

----------------------------------------------------------------------------
(* Properties *)

Called == {i \in LoadIds : loads[i].called}

\* The adapter serving load i still holds the engine that load started
EngineLive(i) ==
    \/ loads[i].adapter = "hls" /\ (hls.engine = i \/ video.src = "hlsUrl")
    \/ loads[i].adapter = "dash" /\ dash.player = i
    \/ loads[i].adapter = "native" /\ video.src = "file"

\* C1: when load(B) is called while an earlier load(A) has not returned, no
\* adapter holds an engine at the moment B's adapter starts loading (A's
\* adapter was destroyed first), and while B is the current load the current
\* adapter is B's and no other adapter holds an engine.
C1_DestroyBeforeSecondLoad ==
    \A i \in Called :
        loads[i].overPending =>
            /\ loads[i].attachedAtStart = {}
            /\ ~loads[i].superseded =>
                   /\ pm.currentAdapter = loads[i].adapter
                   /\ Attached(W) \subseteq {loads[i].adapter}

C1_Witness ==
    /\ env.hlsMode = "hlsjs"
    /\ loads[1].adapter = "hls"
    /\ loads[1].result = "pending"
    /\ loads[2].called /\ loads[2].overPending
    /\ loads[2].adapter = "dash"
    /\ dash.player = 2
    /\ Attached(W) = {"dash"}

\* C2: in every reachable state at most one of the three adapters holds an
\* engine attached to the video element.
C2_AtMostOneEngine == Cardinality(Attached(W)) <= 1

C2_Witness ==
    /\ env.hlsMode = "hlsjs"
    /\ loads[1].adapter = "hls"
    /\ loads[2].adapter = "native"
    /\ hls.engine = 0
    /\ Attached(W) = {"native"}

\* C3 (as claimed): a current load whose adapter promise is still pending has
\* not been waiting for more than 30 units, and a 'Load timeout' is reported
\* at exactly 30 units after the call.
C3_TimeoutAtExactlyThirty ==
    \A i \in Called :
        /\ loads[i].timeoutNotified => loads[i].timeoutAt = LoadTimeoutUnits
        /\ (i \in Running /\ loads[i].ap = "pending") =>
               loads[i].elapsed <= LoadTimeoutUnits

\* C4 (as claimed): after the timeout won the race and before the next stop()
\* or load(), currentAdapter is that load's adapter and its engine is live.
C4_EngineLiveAfterTimeout ==
    \A i \in Called :
        (loads[i].timeoutNotified /\ ~loads[i].superseded) =>
            /\ pm.currentAdapter = loads[i].adapter
            /\ EngineLive(i)

\* C4 (amended): after the timeout won the race and before the next stop() or
\* load(), currentAdapter is that load's adapter, and its engine is live
\* unless the hls.js adapter tore it down itself on a fatal error that is
\* neither a network nor a media error (which rejects its load promise); a
\* stop() issued afterwards leaves no current adapter and no engine.
C4_EngineLiveUnlessFatal ==
    \A i \in Called :
        loads[i].timeoutNotified =>
            /\ ~loads[i].superseded =>
                   /\ pm.currentAdapter = loads[i].adapter
                   /\ \/ EngineLive(i)
                      \/ /\ loads[i].adapter = "hls"
                         /\ env.hlsMode = "hlsjs"
                         /\ loads[i].ap = "rejected"
            /\ (loads[i].superseded /\ i = nLoads) =>
                   /\ pm.currentAdapter = "none"
                   /\ pm.currentUrl = 0
                   /\ Attached(W) = {}

C4_Witness ==
    \E i \in Called :
        /\ loads[i].timeoutNotified
        /\ loads[i].superseded
        /\ i = nLoads
        /\ pm.currentAdapter = "none"

\* C5 (as claimed): once the adapter has reported an error while the load was
\* in flight, the load's timer is no longer pending and no 'Load timeout' is
\* reported for that load.
C5_ErrorCancelsTimeout ==
    \A i \in Called :
        loads[i].adapterError =>
            /\ timers[i].state # "pending"
            /\ ~loads[i].timeoutNotified

\* C6 (as claimed): the onError subscriber is called at most once per load().
C6_AtMostOneNotification ==
    \A i \in Called : loads[i].notified <= 1

\* C7 (as claimed): a load() call that is current has returned by the time 30
\* units have passed since it was called.
C7_LoadCompletesWithinBound ==
    \A i \in Running : loads[i].elapsed <= LoadTimeoutUnits

\* C8: when the adapter's promise resolved and won the race, load() returned
\* true, its timer is not pending and no 'Load timeout' was reported for it;
\* until the next load() call no timer at all is pending.
C8_SuccessCancelsTimeout ==
    \A i \in Called :
        (loads[i].ap = "resolved" /\ loads[i].race = "resolved") =>
            /\ loads[i].result = "true"
            /\ timers[i].state # "pending"
            /\ ~loads[i].timeoutNotified
            /\ i = nLoads => PendingTimers = {}

C8_Witness ==
    \E i \in Called :
        /\ loads[i].ap = "resolved"
        /\ loads[i].race = "resolved"
        /\ loads[i].result = "true"
        /\ timers[i].state = "cleared"
        /\ pm.loadTimeoutId = 0

----------------------------------------------------------------------------
(* Properties of the classifier *)

sameLetter(a, b) ==
    \/ a = b
    \/ \E j \in 1..Len(UpperChars) :
           {a, b} = {UpperChars[j], LowerChars[j]}

\* s contains the marker, letters compared without regard to case
containsAnyCase(s, marker) ==
    \E i \in 0..(Len(s) - Len(marker)) :
        \A k \in 1..Len(marker) : sameLetter(s[i + k], marker[k])

hasHlsMarker(s) ==
    \/ containsAnyCase(s, <<".", "m", "3", "u", "8">>)
    \/ containsAnyCase(s, <<"f", "o", "r", "m", "a", "t", "=", "m", "3", "u", "8">>)
    \/ containsAnyCase(s, <<"/", "h", "l", "s", "/">>)

hasHlsHostMarker(s) == containsAnyCase(s, <<"h", "l", "s", ".">>)

hasDashMarker(s) ==
    \/ containsAnyCase(s, <<".", "m", "p", "d">>)
    \/ containsAnyCase(s, <<"f", "o", "r", "m", "a", "t", "=", "m", "p", "d">>)
    \/ containsAnyCase(s, <<"/", "d", "a", "s", "h", "/">>)

hasContainerMarker(s) ==
    \/ containsAnyCase(s, <<".", "m", "p", "4">>)
    \/ containsAnyCase(s, <<".", "w", "e", "b", "m">>)
    \/ containsAnyCase(s, <<".", "o", "g", "g">>)
    \/ containsAnyCase(s, <<".", "m", "o", "v">>)

\* C9 (as claimed): the result is HLS for an HLS marker ('.m3u8',
\* 'format=m3u8', '/hls/'), else DASH for a DASH marker, else Direct for a
\* container extension, else HLS.
C9_OrderedRule ==
    detected # "none" =>
        detected = IF hasHlsMarker(url) THEN "hls"
                   ELSE IF hasDashMarker(url) THEN "dash"
                   ELSE IF hasContainerMarker(url) THEN "native"
                   ELSE "hls"

\* C9 (amended): the same ordered rule with 'hls.' as a fourth HLS marker.
C9_OrderedRuleWithHost ==
    detected # "none" =>
        detected = IF hasHlsMarker(url) \/ hasHlsHostMarker(url) THEN "hls"
                   ELSE IF hasDashMarker(url) THEN "dash"
                   ELSE IF hasContainerMarker(url) THEN "native"
                   ELSE "hls"

C9_Witness ==
    /\ detected = "hls"
    /\ hasHlsHostMarker(url)
    /\ ~hasHlsMarker(url)
    /\ hasDashMarker(url)

\* C10: detectStreamType returns a family for every locator, HLS for every
\* locator that contains '.m3u8' in any letter case, and HLS for every
\* locator without any HLS, DASH or container marker.
C10_TotalAndHlsDefault ==
    detected # "none" =>
        /\ detected \in {"hls", "dash", "native"}
        /\ containsAnyCase(url, <<".", "m", "3", "u", "8">>) => detected = "hls"
        /\ (~hasHlsMarker(url) /\ ~hasDashMarker(url) /\ ~hasContainerMarker(url))
               => detected = "hls"

C10_Witness ==
    /\ detected = "hls"
    /\ includes(url, <<".", "M", "3", "U", "8">>)
    /\ hasContainerMarker(url)

----------------------------------------------------------------------------
(* Properties of the quality selector *)

\* The labels of the popup's options, in order
OptionLabels == [k \in 1..Len(qs.options) |-> qs.options[k].label]

\* Load i went to hls.js and its manifest yielded the levels 1080, 720, 480
HlsThreeLevelsLoaded(i) ==
    /\ loads[i].called
    /\ loads[i].adapter = "hls"
    /\ ~loads[i].superseded
    /\ hls.engine = i
    /\ hls.levels = <<1080, 720, 480>>

PresentsThreeLevels ==
    /\ ~qs.buttonHidden
    /\ OptionLabels = <<AutoLabel, [kind |-> "p", n |-> 1080],
                        [kind |-> "p", n |-> 720], [kind |-> "p", n |-> 480]>>

\* C11 (as claimed): after load() of an HLS locator whose manifest yields the
\* levels 1080, 720 and 480, the selector eventually presents
\* [Auto, 1080p, 720p, 480p], unless the stream is stopped or replaced first.
C11_HlsLevelsPresented ==
    \A i \in LoadIds :
        HlsThreeLevelsLoaded(i) ~> (PresentsThreeLevels \/ loads[i].superseded)

\* Load i, still the current one, returns true in this step
LoadSucceeds(i) ==
    /\ loads[i].result = "pending"
    /\ loads'[i].result = "true"
    /\ ~loads'[i].superseded

\* C12 (as claimed): when a newly selected stream has loaded, the selector's
\* current selection is Auto (-1), whatever was selected on the stream before.
C12_AutoAfterLoad ==
    [][\A i \in LoadIds : LoadSucceeds(i) => qs'.currentQuality = -1]_vars

\* The load() calls that are current: made, and no stop() or load() since
Current == {i \in LoadIds : loads[i].called /\ ~loads[i].superseded}

QualityIndexes == -1..(MaxLevels - 1)

C14_VisibleOnlyWithLevels ==
    (~qs.buttonHidden \/ qs.popupVisible) => Len(getQualityLevels(W)) > 1

\* The height of the level an option of the popup stands for
OptionHeight(k) == qs.levels[qs.options[k].index + 1].height

\* C15: the popup rendered from any levels has the Auto entry first, then
\* every level exactly once in non-increasing order of height, and at most
\* one entry is marked selected.
C15_RenderOrder ==
    qs.options # <<>> =>
        /\ qs.options[1].index = -1
        /\ qs.options[1].label = AutoLabel
        /\ Len(qs.options) = Len(qs.levels) + 1
        /\ \A i \in 0..(Len(qs.levels) - 1) :
               Cardinality({k \in 2..Len(qs.options) : qs.options[k].index = i}) = 1
        /\ \A k \in 2..(Len(qs.options) - 1) : OptionHeight(k) >= OptionHeight(k + 1)
        /\ Cardinality({k \in 1..Len(qs.options) : qs.options[k].active}) <= 1

C15_Witness ==
    /\ Len(qs.levels) = 3
    /\ qs.levels[1].height = 480
    /\ qs.levels[2].height = 1080
    /\ qs.levels[3].height = 0
    /\ qs.currentQuality = 0
    /\ Len(qs.options) = 4
    /\ qs.options[2].index = 1
    /\ qs.options[3].index = 0
    /\ qs.options[3].active

----------------------------------------------------------------------------
(* Properties of the recorder *)

\* The media recorders that are recording or have their stop event queued
LiveJobs == {m \in JobIds : jobs[m].state = "recording" \/ jobs[m].stopTask}

\* This step is a call of start() made while this.recording is true
StartWhileRecording ==
    /\ trace'.last.op = "start"
    /\ rec.recording

\* C16: start() called while a recording is active, also after stop() and
\* before the stop event, returns false and leaves chunks, media recorder,
\* stream and start time as they were; at most one media recorder is ever
\* recording or finalizing.
C16_StartWhileActive ==
    /\ [](Cardinality(LiveJobs) <= 1)
    /\ [][StartWhileRecording =>
             /\ trace'.last.result = "false"
             /\ rec' = rec
             /\ jobs' = jobs
             /\ nJobs' = nJobs]_vars

\* start() was refused after stop() and before the stop event, with chunks held
C16_Witness ==
    /\ trace.last.op = "start"
    /\ trace.last.result = "false"
    /\ canRecord(trace.last.video)
    /\ rec.recording
    /\ rec.mediaRecorder # 0
    /\ jobs[rec.mediaRecorder].stopTask
    /\ Len(rec.recordedChunks) = 2

\* This step is a call of start() with the video paused, without data for
\* the current position, or without support for the codec pair
StartNotReady ==
    /\ trace'.last.op = "start"
    /\ ~canRecord(trace'.last.video)

\* The last step was such a call, made while the recorder was not recording
AfterStartNotReady ==
    /\ trace.last.op = "start"
    /\ ~canRecord(trace.last.video)
    /\ ~rec.recording

FailedBefore(k) == {m \in JobIds : m < k /\ jobs[m].errored}

\* Every byte of the sequence was produced by media recorder k
OnlyFrom(bytes, k) == \A i \in 1..Len(bytes) : bytes[i].job = k

BlobOf(chunks) ==
    IF chunks = <<>> THEN NullBlob
    ELSE [null |-> FALSE, bytes |-> Flatten(chunks)]

IsSuffix(s, t) == \E k \in 0..Len(t) : s = SubSeq(t, k + 1, Len(t))

PresetNames == {"low", "medium", "high"}

\* C20 (as claimed): the active preset is always low, medium or high, and a
\* setPreset call with a name outside that set leaves medium active,
\* whatever preset was active before.
C20_UnknownPresetIsMedium ==
    /\ [](rec.currentPreset \in PresetNames)
    /\ [][(trace'.last.op = "setPreset" /\ trace'.last.name \notin PresetNames)
              => rec'.currentPreset = "medium"]_vars

----------------------------------------------------------------------------
(* Further properties of the player *)

\* C21: in whatever state stop() is called, it leaves no current adapter, no
\* current url, no load timer id and no pending timer, and a second stop()
\* right after it changes nothing.
C21_StopLeavesIdle ==
    LET w == stop(W)
    IN /\ w.pm.currentAdapter = "none"
       /\ w.pm.currentUrl = 0
       /\ w.pm.loadTimeoutId = 0
       /\ \A i \in LoadIds : w.timers[i].state # "pending"
       /\ stop(w) = w

\* stop() was called while the first load was waiting for its adapter
C21_Witness ==
    /\ nLoads = 1
    /\ loads[1].result = "pending"
    /\ loads[1].superseded
    /\ timers[1].state = "cleared"
    /\ pm.currentAdapter = "none"
    /\ pm.currentUrl = 0
    /\ pm.loadTimeoutId = 0
    /\ W = stop(W)

\* C22 (as claimed): while no adapter is active, play, pause, toggleMute,
\* setVolume and toggleFullscreen leave the manager and the video element
\* (paused, volume, muted, fullscreen) exactly as they were.
C22_TransportNoOpWhenIdle ==
    pm.currentAdapter = "none" =>
        /\ \A allowed \in BOOLEAN : play(W, allowed) = W
        /\ pause(W) = W
        /\ toggleMute(W) = W
        /\ \A level \in VolumeLevels : setVolume(W, level) = W
        /\ \A granted \in BOOLEAN : toggleFullscreen(W, granted) = W

\* The hls.js engine reports a network or a media error, fatal or not
HlsTransientError ==
    \E type \in {"networkError", "mediaError"}, fatal \in BOOLEAN :
        HlsError(type, fatal)

\* C23 (as claimed): a network or media error of the hls.js engine reaches no
\* onError subscriber and fails no load() call.
C23_HlsTransientNotSurfaced ==
    [][HlsTransientError =>
          \A i \in LoadIds :
              /\ loads'[i].notified = loads[i].notified
              /\ loads'[i].result = "false" => loads[i].result = "false"]_vars

\* An option of the popup is clicked: QualitySelector.select(index), which
\* calls PlayerManager.setQuality(index)
OptionClicked == \E k \in 1..(MaxLevels + 1) : QualityOptionClick(k)

\* C24: a setQuality(index) call on the loaded DASH adapter leaves automatic
\* video bitrate switching on exactly when index is Auto (-1); nothing but
\* such a call or a change of the dash.js player changes the switch, and a
\* player just created by load() has it on.
C24_DashAutoSwitch ==
    /\ [][(OptionClicked /\ pm.currentAdapter = "dash" /\ dash.player # 0)
              => dash'.autoSwitch = (qs'.currentQuality = -1)]_vars
    /\ [][dash'.autoSwitch # dash.autoSwitch
              => (OptionClicked \/ dash'.player # dash.player)]_vars
    /\ [][dash'.player # dash.player => dash'.autoSwitch]_vars

\* On a loaded DASH stream a concrete level was selected and then Auto again
C24_Witness ==
    /\ pm.currentAdapter = "dash"
    /\ dash.player # 0
    /\ dash.quality = 1
    /\ qs.currentQuality = -1
    /\ dash.autoSwitch

----------------------------------------------------------------------------
(* Further properties of the recorder *)

\* C25: no call of start, stop, setPreset, save or destroy and no data, stop
\* or error event of a media recorder changes the manager's current adapter,
\* current url or load timer, or the video element's paused, volume or muted
\* state.
C25_RecorderLeavesPlayback ==
    [][/\ pm'.currentAdapter = pm.currentAdapter
       /\ pm'.currentUrl = pm.currentUrl
       /\ pm'.loadTimeoutId = pm.loadTimeoutId
       /\ timers' = timers
       /\ video'.paused = video.paused
       /\ video'.volume = video.volume
       /\ video'.muted = video.muted]_vars

\* A recording of the playing video was stopped and delivered with data, and
\* the video is still playing
C25_Witness ==
    /\ pm.currentAdapter = "native"
    /\ pm.currentUrl = 3
    /\ ~video.paused
    /\ trace.last.op = "stopped"
    /\ trace.last.delivery.stopReturned
    /\ ~trace.last.delivery.blob.null

\* The media recorder whose event this step handles, 0 when the step is
\* a call
EventJob ==
    IF trace'.last.op = "dataavailable"
    THEN IF \E m \in JobIds : jobs'[m].nData > jobs[m].nData
         THEN CHOOSE m \in JobIds : jobs'[m].nData > jobs[m].nData
         ELSE 0
    ELSE IF trace'.last.op \in {"stopped", "error"}
    THEN trace'.last.delivery.job
    ELSE 0

\* The non-empty data the media recorder of this step's event has emitted,
\* up to and including this event
EmittedAfter ==
    IF trace'.last.op = "dataavailable" THEN jobs'[EventJob].emitted
    ELSE trace'.last.delivery.emitted

\* This step is a data event that carries non-empty data
NewData == EventJob # 0 /\ Len(EmittedAfter) > Len(jobs[EventJob].emitted)

\* The chunks change in this step as append-only allows: a data event with
\* data appends that data as one chunk at the end, every other step leaves
\* the chunks as they are
ChunksAppendOnly ==
    IF NewData
    THEN rec'.recordedChunks =
             Append(rec.recordedChunks, EmittedAfter[Len(EmittedAfter)])
    ELSE rec'.recordedChunks = rec.recordedChunks

\* C26 (as claimed): until the next recording starts the chunks only grow,
\* by one chunk at the end for each data event with non-empty data, and the
\* artifact handed to onStop is the chunks in that order.
C26_AppendOnlyUntilNextRecording ==
    /\ [][(trace'.last.op = "start" /\ trace'.last.result = "true")
              \/ ChunksAppendOnly]_vars
    /\ [](trace.last.delivery.job # 0 =>
              trace.last.delivery.blob.bytes = Flatten(rec.recordedChunks))

\* C26 (amended): the chunks only grow, by one chunk at the end for each data
\* event with non-empty data, until destroy() is called or a start() call
\* creates a media recorder (whether or not that call then succeeds); the
\* artifact handed to onStop is the chunks in that order.
C26_AppendOnlyUntilCleared ==
    /\ [][\/ trace'.last.op = "start" /\ rec'.mediaRecorder # rec.mediaRecorder
          \/ trace'.last.op = "destroy"
          \/ ChunksAppendOnly]_vars
    /\ [][(trace'.last.op = "start" /\ rec'.mediaRecorder = rec.mediaRecorder)
              => rec'.recordedChunks = rec.recordedChunks]_vars
    /\ [](trace.last.delivery.job # 0 =>
              trace.last.delivery.blob.bytes = Flatten(rec.recordedChunks))

\* Three chunks arrived one after the other and were handed over in order
C26_Witness ==
    /\ trace.last.op = "stopped"
    /\ Len(rec.recordedChunks) = 3
    /\ rec.recordedChunks[1][1].n = 1
    /\ rec.recordedChunks[2][1].n = 3
    /\ rec.recordedChunks[3][1].n = 5
    /\ trace.last.delivery.blob.bytes = Flatten(rec.recordedChunks)

----------------------------------------------------------------------------
(* Further properties of the adapters *)

\* C27 (as claimed): in whatever state destroy() of an adapter is called, a
\* second destroy() right after it changes nothing, and after it that adapter
\* holds no engine attached to the video element.
C27_DestroyIdempotent ==
    \A a \in AdapterNames :
        LET w == adapterDestroy(W, a)
        IN /\ adapterDestroy(w, a) = w
           /\ a \notin Attached(w)

\* Load i, superseded by a later load() or stop(), returns in this step
SupersededReturns(i) ==
    /\ loads[i].superseded
    /\ loads[i].result = "pending"
    /\ loads'[i].result # "pending"

\* C28 (as claimed): a superseded load() never returns true, and the step in
\* which it returns neither cancels the pending timer of a later load that is
\* still waiting nor changes the current adapter or url.
C28_SupersededLoadInert ==
    [][\A i \in LoadIds :
          SupersededReturns(i) =>
              /\ loads'[i].result # "true"
              /\ pm'.currentAdapter = pm.currentAdapter
              /\ pm'.currentUrl = pm.currentUrl
              /\ \A j \in LoadIds \ {i} :
                     (timers[j].state = "pending" /\ loads'[j].result = "pending")
                         => timers'[j].state = "pending"]_vars

----------------------------------------------------------------------------
(* Properties of the shortcut settings and the watch history *)

\* C29 (as claimed): no key is bound to more than one action.
C29_NoKeyBoundTwice ==
    \A a, b \in ShortcutActions :
        (a # b /\ kbd[a] # "") => kbd[a] # kbd[b]

\* C30: the history holds at most maxHistory entries, no two entries share a
\* url, and an addToHistory call leaves the channel it was given first.
C30_HistoryBounded ==
    /\ [](Len(settings.history) <= maxHistory)
    /\ [](\A j, k \in 1..Len(settings.history) :
              j # k => settings.history[j].url # settings.history[k].url)
    /\ [][\A channel \in Channels :
              AddToHistory(channel) => settings'.history[1].url = channel]_vars

\* The history is full, its oldest entry was dropped for channel 21, and an
\* entry was added again
C30_Witness ==
    /\ Len(settings.history) = maxHistory
    /\ settings.history[1].url = 21
    /\ 1 \notin HistoryUrls
    /\ nReAdds = 1

====
